---- MODULE Spec2Model ----
(***************************************************************************)
(* The su client (su_client_main) of Magisk: the request / acknowledgment  *)
(* / descriptor-exchange protocol spoken on the daemon channel, the        *)
(* pseudo-terminal negotiation, the terminal pumps and the cleanup done by *)
(* the handler of the terminating signals.                                 *)
(*                                                                         *)
(* One foreground thread runs su_client_main statement by statement (pc).  *)
(* The daemon and the invoking environment are the inputs: which of the    *)
(* standard streams are terminals, the acknowledgment, the exit status,    *)
(* the moment the remote side closes the pseudo-terminal, and the delivery *)
(* of terminating signals.                                                 *)
(*                                                                         *)
(* A signal bound to sighandler runs the handler to completion as one      *)
(* step; a signal met with its default disposition ends the process.       *)
(* set_stdin_raw, restore_stdin and the bodies of the pumps are described  *)
(* by the design document only; the calls to them are those of             *)
(* su_client_main and sighandler.                                          *)
(***************************************************************************)
EXTENDS Integers, Sequences, FiniteSets

(* ---- bounds of the daemon's answers ---- *)
MaxAck == 2
MaxCode == 2

(* ---- bound of the bytes relayed and resize notifications in one run ---- *)
MaxIO == 1
\* words on a command line
MaxArgs == 3

AckValues == 0..MaxAck
ExitCodes == 0..MaxCode

(* ---- program constants ---- *)
EACCES == 13
STDIN_FILENO == 0
STDOUT_FILENO == 1
STDERR_FILENO == 2
ATTY_IN == 1
ATTY_OUT == 2
ATTY_ERR == 4
NO_FD == -1

SIGHUP == 1
SIGINT == 2
SIGQUIT == 3
SIGABRT == 6
SIGPIPE == 13
SIGALRM == 14
SIGTERM == 15

\* the zero-terminated table of the terminating signals
quit_signals == <<SIGALRM, SIGABRT, SIGHUP, SIGPIPE, SIGQUIT, SIGTERM, SIGINT, 0>>

QuitSignalSet == {quit_signals[i] : i \in 1..Len(quit_signals)} \ {0}

StdFds == {STDIN_FILENO, STDOUT_FILENO, STDERR_FILENO}

VARIABLES
    pc,          \* position of the foreground thread in su_client_main
    tty,         \* environment: tty[f] iff standard stream f is a terminal
    fdState,     \* the channel: "none", "open" or "closed"
    fdCloses,    \* number of close(fd) calls made on the channel
    chan,        \* the operations performed on the channel, in order
    ack,         \* the acknowledgment read (-1: not read yet)
    atty,        \* the AttyMask computed by su_client_main
    ptmx,        \* TRUE once the pseudo-terminal master was received
    disp,        \* disposition of each terminating signal: "dfl" or "handler"
    stdOpen,     \* stdOpen[f] iff standard stream f is still open
    raw,         \* TRUE iff the terminal is in raw mode
    termLog,     \* terminal mode changes, in order
    hlog,        \* what the handler did, in order
    handled,     \* the signals delivered to the handler, in order
    watcher,     \* resize watcher: "none" or "running"
    inPump,      \* input pump: "none", "running" or "ended"
    outPump,     \* output pump: "none", "running" or "ended"
    sawEOS,      \* the output pump observed end-of-stream on the master
    code,        \* the exit status read (-1: not read yet)
    ret,         \* the value su_client_main returned (-1: none)
    killedBy,    \* the signal that terminated the process (0: none)
    errOut,      \* the messages written to standard error, in order
    connects,    \* number of connections opened to the daemon
    failedAt,    \* the channel operation that failed ("none": none did)
    stdinReads,  \* who read bytes of local stdin, and the input pump's state then
    masterOps,   \* who read or wrote the pseudo-terminal master, in order
    winchFd,     \* the descriptor the resize watcher queries (-1: none)
    winchLog,    \* the descriptors queried on resize notifications, in order
    argv,        \* the command line, as rewritten and reordered so far
    orig,        \* orig[i]: where the word now at argv[i] stood at first
    origArgv,    \* the command line as it was given
    optind,      \* getopt: index of the next word to scan
    place,       \* getopt: next character inside a word of short options
    nonopt_start,  \* getopt: first skipped non-option (-1: none)
    nonopt_end,  \* getopt: first option after the skipped ones (-1: none)
    su_req,      \* the request being built
    optLog,      \* the options met, in order, each with the request it left
    firstPos,    \* optind when the option loop ended
    dashAt,      \* original position of the "-" taken as login (0: none)
    userAt,      \* original position of the word taken as user (0: none)
    pw           \* the answer of getpwnam

vars == <<pc, tty, fdState, fdCloses, chan, ack, atty, ptmx, disp, stdOpen, raw,
          termLog, hlog, handled, watcher, inPump, outPump, sawEOS, code, ret,
          killedBy, errOut, connects, failedAt, stdinReads, masterOps, winchFd,
          winchLog, argv, orig, origArgv, optind, place, nonopt_start, nonopt_end,
          su_req, optLog, firstPos, dashAt, userAt, pw>>

chanVars == <<fdState, fdCloses, chan>>
sigVars == <<disp, hlog, handled, killedBy>>
termVars == <<raw, termLog>>
pumpVars == <<watcher, inPump, outPump, sawEOS>>
outVars == <<errOut, connects, failedAt>>
ioVars == <<stdinReads, masterOps, winchFd, winchLog>>
parseVars == <<argv, orig, origArgv, optind, place, nonopt_start, nonopt_end,
               su_req, optLog, firstPos, dashAt, userAt, pw>>

(* ---- the command line: su [options] [-] [user [argument...]] ---- *)

\* s is a prefix of t
IsPrefix(s, t) == Len(s) <= Len(t) /\ \A i \in 1..Len(s) : s[i] = t[i]

\* the words a command line is drawn from, each a sequence of characters
Tokens ==
    { <<"-", "c">>, <<"-", "c", "n">>, <<"-", "m", "m">>, <<"-", "M">>,
      <<"-", "l">>, <<"-">>, <<"-", "x">>, <<"-", "V">>,
      <<"-", "-", "h", "e", "l", "p">>,
      <<"-", "-", "v", "e", "r", "s", "i", "o", "n">>,
      <<"r", "o", "o", "t">>, <<"1", "0">>, <<"i", "d">> }

\* argv[1..argc-1] of an invocation
ArgvSet == UNION {[1..n -> Tokens] : n \in 0..MaxArgs}

\* the third argument of getopt_long
OptString == <<"c", ":", "h", "l", "m", "p", "s", ":", "V", "v", "u", "z", ":", "M">>

InOptString(ch) == ch # ":" /\ \E i \in 1..Len(OptString) : OptString[i] = ch

\* "z" declared without an argument
TakesArg_ExceptZ(ch) ==
    /\ ch # "z"
    /\ \E i \in 1..(Len(OptString) - 1) : OptString[i] = ch /\ OptString[i + 1] = ":"

\* the option character is followed by a colon in the option string
TakesArg(ch) ==
    \E i \in 1..(Len(OptString) - 1) : OptString[i] = ch /\ OptString[i + 1] = ":"

long_opts ==
    << [name |-> <<"c", "o", "m", "m", "a", "n", "d">>, has_arg |-> TRUE, val |-> "c"],
       [name |-> <<"h", "e", "l", "p">>, has_arg |-> FALSE, val |-> "h"],
       [name |-> <<"l", "o", "g", "i", "n">>, has_arg |-> FALSE, val |-> "l"],
       [name |-> <<"p", "r", "e", "s", "e", "r", "v", "e", "-", "e", "n", "v", "i",
                   "r", "o", "n", "m", "e", "n", "t">>, has_arg |-> FALSE, val |-> "p"],
       [name |-> <<"s", "h", "e", "l", "l">>, has_arg |-> TRUE, val |-> "s"],
       [name |-> <<"v", "e", "r", "s", "i", "o", "n">>, has_arg |-> FALSE, val |-> "v"],
       [name |-> <<"c", "o", "n", "t", "e", "x", "t">>, has_arg |-> TRUE, val |-> "z"],
       [name |-> <<"m", "o", "u", "n", "t", "-", "m", "a", "s", "t", "e", "r">>,
        has_arg |-> FALSE, val |-> "M"] >>

\* su_request as constructed: no command, no flag, the default identity
DefaultUid == 0
DEFAULT_SHELL == <<"DEFAULT_SHELL">>
DefaultReq ==
    [uid |-> DefaultUid, login |-> FALSE, keepenv |-> FALSE,
     mount_master |-> FALSE, shell |-> DEFAULT_SHELL, command |-> <<>>]

\* for (i = 0; i < argc; i++): -cn becomes -z, -mm becomes -M
NormalizeArg(tok) ==
    IF tok = <<"-", "c", "n">> THEN <<"-", "z">>
    ELSE IF tok = <<"-", "m", "m">> THEN <<"-", "M">>
    ELSE tok

normalize_argv ==
    /\ pc = "normalize"
    /\ argv' = [i \in 1..Len(argv) |-> NormalizeArg(argv[i])]
    /\ pc' = "getopt"
    /\ UNCHANGED <<orig, origArgv, optind, place, nonopt_start, nonopt_end, su_req,
                   optLog, firstPos, dashAt, userAt, pw>>
    /\ UNCHANGED <<tty, ack, atty, ptmx, stdOpen, code, ret>>
    /\ UNCHANGED <<chanVars, sigVars, termVars, pumpVars>>
    /\ UNCHANGED <<outVars, ioVars>>

\* getopt_long moving the skipped non-options [ns, ne) behind the options
\* [ne, oe) that followed them
permute_args(s, ns, ne, oe) ==
    SubSeq(s, 1, ns - 1) \o SubSeq(s, ne, oe - 1) \o SubSeq(s, ns, ne - 1)
        \o SubSeq(s, oe, Len(s))

\* getopt_long returning -1: optind is left on the first non-option
GetoptEnd(g) ==
    [g EXCEPT !.c = "end", !.place = 0,
              !.argv = IF g.ne # -1 THEN permute_args(g.argv, g.ns, g.ne, g.optind)
                       ELSE g.argv,
              !.orig = IF g.ne # -1 THEN permute_args(g.orig, g.ns, g.ne, g.optind)
                       ELSE g.orig,
              !.optind = IF g.ne # -1 THEN g.optind - (g.ne - g.ns)
                         ELSE IF g.ns # -1 THEN g.ns ELSE g.optind,
              !.ns = -1, !.ne = -1]

\* one character of a short-option word, at g.place of argv[g.optind]
ShortOption(g) ==
    LET tok == g.argv[g.optind]
        ch == tok[g.place]
        last == g.place = Len(tok)
        adv == IF last THEN [g EXCEPT !.optind = g.optind + 1, !.place = 0]
               ELSE [g EXCEPT !.place = g.place + 1]
    IN  IF ch = ":" \/ (ch = "-" /\ ~last) \/ ~InOptString(ch)
        THEN [adv EXCEPT !.c = "?"]
        ELSE IF ~TakesArg(ch)
        THEN [adv EXCEPT !.c = ch]
        ELSE IF ~last
        THEN [g EXCEPT !.c = ch, !.optarg = SubSeq(tok, g.place + 1, Len(tok)),
                       !.place = 0, !.optind = g.optind + 1]
        ELSE IF g.optind + 1 > Len(g.argv)
        THEN [g EXCEPT !.c = "?", !.place = 0, !.optind = g.optind + 1]
        ELSE [g EXCEPT !.c = ch, !.optarg = g.argv[g.optind + 1],
                       !.argAt = g.orig[g.optind + 1],
                       !.place = 0, !.optind = g.optind + 2]

\* a word beginning with "--": an exact name, or an unambiguous abbreviation
LongOption(g) ==
    LET tok == g.argv[g.optind]
        name == SubSeq(tok, 3, Len(tok))
        exact == {i \in 1..Len(long_opts) : long_opts[i].name = name}
        abbr == {i \in 1..Len(long_opts) : IsPrefix(name, long_opts[i].name)}
        match == IF exact # {} THEN exact ELSE abbr
    IN  IF Cardinality(match) # 1
        THEN [g EXCEPT !.c = "?", !.optind = g.optind + 1]
        ELSE LET o == long_opts[CHOOSE i \in match : TRUE] IN
             IF ~o.has_arg
             THEN [g EXCEPT !.c = o.val, !.optind = g.optind + 1]
             ELSE IF g.optind + 1 > Len(g.argv)
             THEN [g EXCEPT !.c = "?", !.optind = g.optind + 1]
             ELSE [g EXCEPT !.c = o.val, !.optarg = g.argv[g.optind + 1],
                            !.argAt = g.orig[g.optind + 1],
                            !.optind = g.optind + 2]

\* getopt_long(argc, argv, "c:hlmps:Vvuz:M", long_opts, nullptr)
RECURSIVE getopt_long(_)
getopt_long(g) ==
    IF g.place # 0 THEN ShortOption(g)
    ELSE IF g.optind > Len(g.argv) THEN GetoptEnd(g)
    ELSE LET tok == g.argv[g.optind] IN
         IF tok[1] # "-" \/ Len(tok) = 1
         THEN \* a non-option ("-" included) is skipped
              IF g.ns = -1
              THEN getopt_long([g EXCEPT !.ns = g.optind, !.optind = g.optind + 1])
              ELSE IF g.ne # -1
              THEN getopt_long(
                     [g EXCEPT !.argv = permute_args(g.argv, g.ns, g.ne, g.optind),
                               !.orig = permute_args(g.orig, g.ns, g.ne, g.optind),
                               !.ns = g.optind - (g.ne - g.ns), !.ne = -1,
                               !.optind = g.optind + 1])
              ELSE getopt_long([g EXCEPT !.optind = g.optind + 1])
         ELSE LET g1 == [g EXCEPT !.ne = IF g.ns # -1 /\ g.ne = -1 THEN g.optind
                                         ELSE g.ne,
                                  !.at = g.orig[g.optind]]
              IN  IF tok = <<"-", "-">>
                  THEN GetoptEnd([g1 EXCEPT !.optind = g.optind + 1])
                  ELSE IF tok[2] = "-" THEN LongOption(g1)
                  ELSE ShortOption([g1 EXCEPT !.place = 2])

\* su_req.command grown by the words, a space before each but the first
RECURSIVE JoinOnto(_, _)
JoinOnto(cmd, words) ==
    IF words = <<>> THEN cmd
    ELSE JoinOnto((IF cmd # <<>> THEN Append(cmd, " ") ELSE cmd) \o Head(words),
                  Tail(words))

\* the switch on the option character: what it does to su_req
SwitchCase(r, req) ==
    CASE r.c = "c" ->
           [req EXCEPT !.command =
               JoinOnto(req.command, SubSeq(r.argv, r.optind - 1, Len(r.argv)))]
      [] r.c = "l" -> [req EXCEPT !.login = TRUE]
      [] r.c \in {"m", "p"} -> [req EXCEPT !.keepenv = TRUE]
      [] r.c = "s" -> [req EXCEPT !.shell = r.optarg]
      [] r.c = "M" -> [req EXCEPT !.mount_master = TRUE]
      [] OTHER -> req

EXIT_SUCCESS == 0
USAGE_STATUS == 2
NO_EXIT == -1

\* no case of the switch leaves the process
ExitStatusOf_NoExit(c) == NO_EXIT

\* the switch on the option character: the status it exits with, if it does
ExitStatusOf(c) ==
    CASE c \in {"c", "l", "m", "p", "s", "z", "M"} -> NO_EXIT
      [] c \in {"h", "V", "v"} -> EXIT_SUCCESS
      [] OTHER -> USAGE_STATUS

\* one iteration of while ((c = getopt_long(...)) != -1) switch (c)
getopt_loop ==
    /\ pc = "getopt"
    /\ LET r == getopt_long([argv |-> argv, orig |-> orig, optind |-> optind,
                             place |-> place, ns |-> nonopt_start,
                             ne |-> nonopt_end, c |-> "none", at |-> 0,
                             argAt |-> 0, optarg |-> <<>>])
           req == SwitchCase(r, su_req)
           st == ExitStatusOf(r.c)
       IN  /\ argv' = r.argv
           /\ orig' = r.orig
           /\ place' = r.place
           /\ nonopt_start' = r.ns
           /\ nonopt_end' = r.ne
           /\ optind' = IF r.c = "c" THEN Len(argv) + 1 ELSE r.optind
           /\ IF r.c = "end"
              THEN /\ pc' = "dash"
                   /\ firstPos' = r.optind
                   /\ UNCHANGED <<su_req, optLog, ret, errOut>>
              ELSE /\ su_req' = req
                   /\ optLog' = Append(optLog, [c |-> r.c, at |-> r.at,
                                                argAt |-> r.argAt, req |-> req])
                   /\ firstPos' = firstPos
                   /\ IF st # NO_EXIT
                      THEN /\ pc' = "exited"
                           /\ ret' = st
                           /\ errOut' = IF st = EXIT_SUCCESS THEN errOut
                                        ELSE Append(errOut, "usage")
                      ELSE /\ pc' = "getopt"
                           /\ UNCHANGED <<ret, errOut>>
    /\ UNCHANGED <<origArgv, dashAt, userAt, pw>>
    /\ UNCHANGED <<tty, ack, atty, ptmx, stdOpen, code, connects, failedAt>>
    /\ UNCHANGED <<chanVars, sigVars, termVars, pumpVars>>
    /\ UNCHANGED ioVars

\* if (optind < argc && strcmp(argv[optind], "-") == 0)
dash_login ==
    /\ pc = "dash"
    /\ IF optind <= Len(argv) /\ argv[optind] = <<"-">>
       THEN /\ su_req' = [su_req EXCEPT !.login = TRUE]
            /\ dashAt' = orig[optind]
            /\ optind' = optind + 1
       ELSE UNCHANGED <<su_req, dashAt, optind>>
    /\ pc' = "user"
    /\ UNCHANGED <<argv, orig, origArgv, place, nonopt_start, nonopt_end, optLog,
                   firstPos, userAt, pw>>
    /\ UNCHANGED <<tty, ack, atty, ptmx, stdOpen, code, ret>>
    /\ UNCHANGED <<chanVars, sigVars, termVars, pumpVars>>
    /\ UNCHANGED <<outVars, ioVars>>

\* what getpwnam may answer: root is a user, a user may or may not be named
\* by digits, no user is named id
getpwnam(name) ==
    IF name = <<"r", "o", "o", "t">> THEN {[found |-> TRUE, pw_uid |-> 0]}
    ELSE IF name = <<"1", "0">>
    THEN {[found |-> FALSE, pw_uid |-> 0], [found |-> TRUE, pw_uid |-> 7]}
    ELSE {[found |-> FALSE, pw_uid |-> 0]}

Digits == <<"0", "1", "2", "3", "4", "5", "6", "7", "8", "9">>

\* parse_int: the decimal value of a word of digits, -1 for any other word
RECURSIVE ParseDigits(_, _)
ParseDigits(word, val) ==
    IF word = <<>> THEN val
    ELSE IF \A d \in 1..Len(Digits) : Digits[d] # Head(word) THEN -1
    ELSE ParseDigits(Tail(word),
                     val * 10 + (CHOOSE d \in 1..Len(Digits) : Digits[d] = Head(word)) - 1)

parse_int(word) == ParseDigits(word, 0)

\* the integer literal tried before the user database
ResolveUid_IntegerFirst(p, word) == IF parse_int(word) # -1 THEN parse_int(word) ELSE p.pw_uid

\* if (pw) su_req.uid = pw->pw_uid; else su_req.uid = parse_int(argv[optind])
ResolveUid(p, word) == IF p.found THEN p.pw_uid ELSE parse_int(word)

\* if (optind < argc) { pw = getpwnam(argv[optind]); ...; optind++; }
user_or_uid ==
    /\ pc = "user"
    /\ IF optind <= Len(argv)
       THEN \E p \in getpwnam(argv[optind]) :
               /\ pw' = p
               /\ su_req' = [su_req EXCEPT !.uid = ResolveUid(p, argv[optind])]
               /\ userAt' = orig[optind]
               /\ optind' = optind + 1
       ELSE UNCHANGED <<pw, su_req, userAt, optind>>
    /\ pc' = "connect"
    /\ UNCHANGED <<argv, orig, origArgv, place, nonopt_start, nonopt_end, optLog,
                   firstPos, dashAt>>
    /\ UNCHANGED <<tty, ack, atty, ptmx, stdOpen, code, ret>>
    /\ UNCHANGED <<chanVars, sigVars, termVars, pumpVars>>
    /\ UNCHANGED <<outVars, ioVars>>

(* ---- entry ---- *)

\* the state on entry to su_client_main, given the terminals and the words
Start(ttys, args) ==
    /\ pc = "normalize"
    /\ tty \in ttys
    /\ argv \in args
    /\ origArgv = argv
    /\ orig = [i \in 1..Len(argv) |-> i]
    /\ optind = 1
    /\ place = 0
    /\ nonopt_start = -1
    /\ nonopt_end = -1
    /\ su_req = DefaultReq
    /\ optLog = <<>>
    /\ firstPos = 0
    /\ dashAt = 0
    /\ userAt = 0
    /\ pw = [found |-> FALSE, pw_uid |-> 0]
    /\ fdState = "none"
    /\ fdCloses = 0
    /\ chan = <<>>
    /\ ack = -1
    /\ atty = 0
    /\ ptmx = FALSE
    /\ disp = [s \in QuitSignalSet |-> "dfl"]
    /\ stdOpen = [f \in StdFds |-> TRUE]
    /\ raw = FALSE
    /\ termLog = <<>>
    /\ hlog = <<>>
    /\ handled = <<>>
    /\ watcher = "none"
    /\ inPump = "none"
    /\ outPump = "none"
    /\ sawEOS = FALSE
    /\ code = -1
    /\ ret = -1
    /\ killedBy = 0
    /\ errOut = <<>>
    /\ connects = 0
    /\ failedAt = "none"
    /\ stdinReads = <<>>
    /\ masterOps = <<>>
    /\ winchFd = -1
    /\ winchLog = <<>>

\* su with no argument, on any mix of terminals and redirected streams
Init == Start([StdFds -> BOOLEAN], {<<>>})

\* su on a terminal, with any command line
ParseInit == Start({[f \in StdFds |-> TRUE]}, ArgvSet)

Alive == pc \notin {"returned", "killed", "exited"}

(* ---- su_client_main: the request ---- *)

\* the handlers installed on entry, before the handshake
connect_daemon_InstallsHandlers ==
    /\ pc = "connect"
    /\ fdState' = "open"
    /\ connects' = connects + 1
    /\ disp' = [s \in QuitSignalSet |-> "handler"]
    /\ pc' = "send_req"
    /\ UNCHANGED <<tty, fdCloses, chan, ack, atty, ptmx, stdOpen, code, ret>>
    /\ UNCHANGED <<hlog, handled, killedBy, termVars, pumpVars, errOut, failedAt>>
    /\ UNCHANGED ioVars
    /\ UNCHANGED parseVars

\* fd = connect_daemon(MainRequest::SUPERUSER)
connect_daemon ==
    /\ pc = "connect"
    /\ fdState' = "open"
    /\ connects' = connects + 1
    /\ pc' = "send_req"
    /\ UNCHANGED <<tty, fdCloses, chan, ack, atty, ptmx, stdOpen, code, ret>>
    /\ UNCHANGED <<sigVars, termVars, pumpVars, errOut, failedAt>>
    /\ UNCHANGED ioVars
    /\ UNCHANGED parseVars

\* one more operation on the channel: the call, what it carries, the value
ChanOp(op, what, arg) == chan' = Append(chan, <<op, what, arg>>)

\* xwrite(fd, &su_req, sizeof(su_req_base))
xwrite_request ==
    /\ pc = "send_req"
    /\ ChanOp("xwrite", "request", su_req.uid)
    /\ pc' = "send_shell"
    /\ UNCHANGED <<tty, fdState, fdCloses, ack, atty, ptmx, stdOpen, code, ret>>
    /\ UNCHANGED <<sigVars, termVars, pumpVars>>
    /\ UNCHANGED <<outVars, ioVars>>
    /\ UNCHANGED parseVars

\* write_string(fd, su_req.shell)
write_string_shell ==
    /\ pc = "send_shell"
    /\ ChanOp("write_string", "shell", 0)
    /\ pc' = "send_command"
    /\ UNCHANGED <<tty, fdState, fdCloses, ack, atty, ptmx, stdOpen, code, ret>>
    /\ UNCHANGED <<sigVars, termVars, pumpVars>>
    /\ UNCHANGED <<outVars, ioVars>>
    /\ UNCHANGED parseVars

\* write_string(fd, su_req.command)
write_string_command ==
    /\ pc = "send_command"
    /\ ChanOp("write_string", "command", 0)
    /\ pc' = "read_ack"
    /\ UNCHANGED <<tty, fdState, fdCloses, ack, atty, ptmx, stdOpen, code, ret>>
    /\ UNCHANGED <<sigVars, termVars, pumpVars>>
    /\ UNCHANGED <<outVars, ioVars>>
    /\ UNCHANGED parseVars

(* ---- su_client_main: the acknowledgment ---- *)

\* the check of the acknowledgment, rejecting only negative values
Denied_OnlyNegative(a) == a < 0

\* if (read_int(fd)): a nonzero acknowledgment is a denial
Denied(a) == a # 0

\* read_int(fd), the acknowledgment of the daemon
read_int_ack ==
    /\ pc = "read_ack"
    /\ \E a \in AckValues :
        /\ ChanOp("read_int", "ack", a)
        /\ ack' = a
        /\ pc' = IF Denied(a) THEN "deny" ELSE "isatty"
    /\ UNCHANGED <<tty, fdState, fdCloses, atty, ptmx, stdOpen, code, ret>>
    /\ UNCHANGED <<sigVars, termVars, pumpVars>>
    /\ UNCHANGED <<outVars, ioVars>>
    /\ UNCHANGED parseVars

\* fprintf(stderr, "%s\n", strerror(EACCES)); return EACCES
return_EACCES ==
    /\ pc = "deny"
    /\ errOut' = Append(errOut, "EACCES")
    /\ ret' = EACCES
    /\ pc' = "returned"
    /\ UNCHANGED <<tty, ack, atty, ptmx, stdOpen, code>>
    /\ UNCHANGED <<chanVars, sigVars, termVars, pumpVars, connects, failedAt>>
    /\ UNCHANGED ioVars
    /\ UNCHANGED parseVars

(* ---- su_client_main: the descriptor exchange ---- *)

\* (mask & bit) != 0, for a single-bit value
BitSet(mask, bit) == (mask \div bit) % 2 = 1

\* int atty = 0; if (isatty(...)) atty |= ATTY_...;
AttyOf(t) ==
    (IF t[STDIN_FILENO] THEN ATTY_IN ELSE 0)
    + (IF t[STDOUT_FILENO] THEN ATTY_OUT ELSE 0)
    + (IF t[STDERR_FILENO] THEN ATTY_ERR ELSE 0)

isatty_streams ==
    /\ pc = "isatty"
    /\ atty' = AttyOf(tty)
    /\ pc' = "send_stdin"
    /\ UNCHANGED <<tty, ack, ptmx, stdOpen, code, ret>>
    /\ UNCHANGED <<chanVars, sigVars, termVars, pumpVars>>
    /\ UNCHANGED <<outVars, ioVars>>
    /\ UNCHANGED parseVars

\* the choice of the value to transfer, with its two branches exchanged
FdToSend_Exchanged(mask, bit, fileno) == IF BitSet(mask, bit) THEN fileno ELSE NO_FD

\* (atty & ATTY_x) ? -1 : x_FILENO
FdToSend(mask, bit, fileno) == IF BitSet(mask, bit) THEN NO_FD ELSE fileno

\* send_fd(fd, (atty & ATTY_IN) ? -1 : STDIN_FILENO)
send_fd_stdin ==
    /\ pc = "send_stdin"
    /\ ChanOp("send_fd", "stdin", FdToSend(atty, ATTY_IN, STDIN_FILENO))
    /\ pc' = "send_stdout"
    /\ UNCHANGED <<tty, fdState, fdCloses, ack, atty, ptmx, stdOpen, code, ret>>
    /\ UNCHANGED <<sigVars, termVars, pumpVars>>
    /\ UNCHANGED <<outVars, ioVars>>
    /\ UNCHANGED parseVars

\* the second transfer, made with the values of the third
send_fd_stdout_AsStderr ==
    /\ pc = "send_stdout"
    /\ ChanOp("send_fd", "stderr", FdToSend(atty, ATTY_ERR, STDERR_FILENO))
    /\ pc' = "send_stderr"
    /\ UNCHANGED <<tty, fdState, fdCloses, ack, atty, ptmx, stdOpen, code, ret>>
    /\ UNCHANGED <<sigVars, termVars, pumpVars>>
    /\ UNCHANGED <<outVars, ioVars>>
    /\ UNCHANGED parseVars

\* send_fd(fd, (atty & ATTY_OUT) ? -1 : STDOUT_FILENO)
send_fd_stdout ==
    /\ pc = "send_stdout"
    /\ ChanOp("send_fd", "stdout", FdToSend(atty, ATTY_OUT, STDOUT_FILENO))
    /\ pc' = "send_stderr"
    /\ UNCHANGED <<tty, fdState, fdCloses, ack, atty, ptmx, stdOpen, code, ret>>
    /\ UNCHANGED <<sigVars, termVars, pumpVars>>
    /\ UNCHANGED <<outVars, ioVars>>
    /\ UNCHANGED parseVars

\* send_fd(fd, (atty & ATTY_ERR) ? -1 : STDERR_FILENO)
send_fd_stderr ==
    /\ pc = "send_stderr"
    /\ ChanOp("send_fd", "stderr", FdToSend(atty, ATTY_ERR, STDERR_FILENO))
    /\ pc' = "send_flag"
    /\ UNCHANGED <<tty, fdState, fdCloses, ack, atty, ptmx, stdOpen, code, ret>>
    /\ UNCHANGED <<sigVars, termVars, pumpVars>>
    /\ UNCHANGED <<outVars, ioVars>>
    /\ UNCHANGED parseVars

\* if (atty): a pseudo-terminal is needed
NeedPty(mask) == mask # 0

\* if (atty) { write_int(fd, 1); ... } else { write_int(fd, 0); }
write_int_flag ==
    /\ pc = "send_flag"
    /\ ChanOp("write_int", "pty", IF NeedPty(atty) THEN 1 ELSE 0)
    /\ pc' = IF NeedPty(atty) THEN "recv_ptmx" ELSE "if_atty"
    /\ UNCHANGED <<tty, fdState, fdCloses, ack, atty, ptmx, stdOpen, code, ret>>
    /\ UNCHANGED <<sigVars, termVars, pumpVars>>
    /\ UNCHANGED <<outVars, ioVars>>
    /\ UNCHANGED parseVars

\* ptmx = recv_fd(fd)
recv_fd_ptmx ==
    /\ pc = "recv_ptmx"
    /\ ChanOp("recv_fd", "ptmx", 0)
    /\ ptmx' = TRUE
    /\ pc' = "if_atty"
    /\ UNCHANGED <<tty, fdState, fdCloses, ack, atty, stdOpen, code, ret>>
    /\ UNCHANGED <<sigVars, termVars, pumpVars>>
    /\ UNCHANGED <<outVars, ioVars>>
    /\ UNCHANGED parseVars

(* ---- su_client_main: the terminal session ---- *)

\* the terminal session entered whatever the mask
if_atty_session_Always ==
    /\ pc = "if_atty"
    /\ pc' = "setup_sig"
    /\ UNCHANGED <<tty, ack, atty, ptmx, stdOpen, code, ret>>
    /\ UNCHANGED <<chanVars, sigVars, termVars, pumpVars>>
    /\ UNCHANGED <<outVars, ioVars>>
    /\ UNCHANGED parseVars

\* if (atty) { setup_sighandlers ... pump_stdout_blocking }
if_atty_session ==
    /\ pc = "if_atty"
    /\ pc' = IF NeedPty(atty) THEN "setup_sig" ELSE "read_exit"
    /\ UNCHANGED <<tty, ack, atty, ptmx, stdOpen, code, ret>>
    /\ UNCHANGED <<chanVars, sigVars, termVars, pumpVars>>
    /\ UNCHANGED <<outVars, ioVars>>
    /\ UNCHANGED parseVars

\* r is one of the elements of the sequence s
InSeq(r, s) == \E i \in 1..Len(s) : s[i] = r

RECURSIVE SetupLoop(_)
\* for (int i = 0; quit_signals[i]; ++i): the signals the loop of
\* setup_sighandlers visits, in order
SetupLoop(i) ==
    IF quit_signals[i] = 0 THEN <<>>
    ELSE <<quit_signals[i]>> \o SetupLoop(i + 1)

\* setup_sighandlers(sighandler)
setup_sighandlers ==
    /\ pc = "setup_sig"
    /\ disp' = [s \in QuitSignalSet |->
                    IF InSeq(s, SetupLoop(1)) THEN "handler" ELSE disp[s]]
    /\ pc' = "watch"
    /\ UNCHANGED <<tty, ack, atty, ptmx, stdOpen, code, ret, hlog, handled, killedBy>>
    /\ UNCHANGED <<chanVars, termVars, pumpVars>>
    /\ UNCHANGED <<outVars, ioVars>>
    /\ UNCHANGED parseVars

\* watch_sigwinch_async(STDOUT_FILENO, ptmx)
watch_sigwinch_async ==
    /\ pc = "watch"
    /\ watcher' = "running"
    /\ winchFd' = STDOUT_FILENO
    /\ pc' = "pump_stdin"
    /\ UNCHANGED <<tty, ack, atty, ptmx, stdOpen, code, ret, inPump, outPump, sawEOS>>
    /\ UNCHANGED <<chanVars, sigVars, termVars>>
    /\ UNCHANGED <<outVars, stdinReads, masterOps, winchLog>>
    /\ UNCHANGED parseVars

\* the terminal enters raw mode when stdin is an open terminal
set_stdin_raw ==
    IF stdOpen[STDIN_FILENO] /\ tty[STDIN_FILENO]
    THEN raw' = TRUE /\ termLog' = Append(termLog, "raw")
    ELSE UNCHANGED termVars

\* the terminal gets its configuration of before raw mode back
restore_stdin ==
    IF raw
    THEN raw' = FALSE /\ termLog' = Append(termLog, "restore")
    ELSE UNCHANGED termVars

\* the input pump started only when stdin is a terminal
pump_stdin_async_OnlyForTtyStdin ==
    /\ pc = "pump_stdin"
    /\ IF BitSet(atty, ATTY_IN)
       THEN set_stdin_raw /\ inPump' = "running"
       ELSE UNCHANGED <<termVars, inPump>>
    /\ pc' = "pump_stdout"
    /\ UNCHANGED <<tty, ack, atty, ptmx, stdOpen, code, ret, watcher, outPump, sawEOS>>
    /\ UNCHANGED <<chanVars, sigVars>>
    /\ UNCHANGED <<outVars, ioVars>>
    /\ UNCHANGED parseVars

\* pump_stdin_async(ptmx): raw mode, then the input pump runs on its own
pump_stdin_async ==
    /\ pc = "pump_stdin"
    /\ set_stdin_raw
    /\ inPump' = "running"
    /\ pc' = "pump_stdout"
    /\ UNCHANGED <<tty, ack, atty, ptmx, stdOpen, code, ret, watcher, outPump, sawEOS>>
    /\ UNCHANGED <<chanVars, sigVars>>
    /\ UNCHANGED <<outVars, ioVars>>
    /\ UNCHANGED parseVars

\* the output pump started without the foreground thread waiting for it
pump_stdout_blocking_NoWait ==
    /\ pc = "pump_stdout"
    /\ outPump' = "running"
    /\ pc' = "read_exit"
    /\ UNCHANGED <<tty, ack, atty, ptmx, stdOpen, code, ret, watcher, inPump, sawEOS>>
    /\ UNCHANGED <<chanVars, sigVars, termVars>>
    /\ UNCHANGED <<outVars, ioVars>>
    /\ UNCHANGED parseVars

\* pump_stdout_blocking(ptmx): the foreground thread waits in the output pump
pump_stdout_blocking ==
    /\ pc = "pump_stdout"
    /\ outPump' = "running"
    /\ pc' = "pump_wait"
    /\ UNCHANGED <<tty, ack, atty, ptmx, stdOpen, code, ret, watcher, inPump, sawEOS>>
    /\ UNCHANGED <<chanVars, sigVars, termVars>>
    /\ UNCHANGED <<outVars, ioVars>>
    /\ UNCHANGED parseVars

\* the output pump reads end-of-stream on the master: the remote side closed
pump_stdout_eos ==
    /\ pc = "pump_wait"
    /\ outPump = "running"
    /\ sawEOS' = TRUE
    /\ outPump' = "ended"
    /\ restore_stdin
    /\ pc' = "read_exit"
    /\ UNCHANGED <<tty, ack, atty, ptmx, stdOpen, code, ret, watcher, inPump>>
    /\ UNCHANGED <<chanVars, sigVars>>
    /\ UNCHANGED <<outVars, ioVars>>
    /\ UNCHANGED parseVars

\* the output pump is unblocked by the forced close of standard output
pump_stdout_unblocked ==
    /\ pc = "pump_wait"
    /\ outPump = "running"
    /\ ~stdOpen[STDOUT_FILENO]
    /\ outPump' = "ended"
    /\ restore_stdin
    /\ pc' = "read_exit"
    /\ UNCHANGED <<tty, ack, atty, ptmx, stdOpen, code, ret, watcher, inPump, sawEOS>>
    /\ UNCHANGED <<chanVars, sigVars>>
    /\ UNCHANGED <<outVars, ioVars>>
    /\ UNCHANGED parseVars

\* the input pump ends: end of input, or standard input was closed under it
pump_stdin_exit ==
    /\ Alive
    /\ inPump = "running"
    /\ inPump' = "ended"
    /\ UNCHANGED <<pc, tty, ack, atty, ptmx, stdOpen, code, ret, watcher, outPump, sawEOS>>
    /\ UNCHANGED <<chanVars, sigVars, termVars>>
    /\ UNCHANGED <<outVars, ioVars>>
    /\ UNCHANGED parseVars

(* ---- the relay, while the session lasts ---- *)

\* bytes read for the relay and resize notifications so far
IOCount ==
    Len(stdinReads) + Len(winchLog)
    + Cardinality({i \in 1..Len(masterOps) : masterOps[i][2] = "read"})

\* the input pump copies a byte from local stdin to the master
pump_stdin_copy ==
    /\ Alive
    /\ inPump = "running"
    /\ stdOpen[STDIN_FILENO]
    /\ IOCount < MaxIO
    /\ stdinReads' = Append(stdinReads, <<"input_pump", inPump>>)
    /\ masterOps' = Append(masterOps, <<"input_pump", "write">>)
    /\ UNCHANGED <<pc, tty, ack, atty, ptmx, stdOpen, code, ret, winchFd, winchLog>>
    /\ UNCHANGED parseVars
    /\ UNCHANGED <<chanVars, sigVars, termVars, pumpVars, outVars>>

\* the output pump copies a byte from the master to local stdout
pump_stdout_copy ==
    /\ pc = "pump_wait"
    /\ outPump = "running"
    /\ stdOpen[STDOUT_FILENO]
    /\ IOCount < MaxIO
    /\ masterOps' = Append(masterOps, <<"output_pump", "read">>)
    /\ UNCHANGED <<pc, tty, ack, atty, ptmx, stdOpen, code, ret, stdinReads, winchFd, winchLog>>
    /\ UNCHANGED parseVars
    /\ UNCHANGED <<chanVars, sigVars, termVars, pumpVars, outVars>>

\* on a resize notification the watcher queries the dimensions on its
\* descriptor and forwards them to the master
sigwinch ==
    /\ Alive
    /\ watcher = "running"
    /\ IOCount < MaxIO
    /\ winchLog' = Append(winchLog, winchFd)
    /\ UNCHANGED <<pc, tty, ack, atty, ptmx, stdOpen, code, ret, stdinReads, masterOps, winchFd>>
    /\ UNCHANGED parseVars
    /\ UNCHANGED <<chanVars, sigVars, termVars, pumpVars, outVars>>

\* the daemon holds the real stdin once it was transferred, and runs the
\* remote command from the end of the descriptor exchange to the exit status
RemoteHoldsStdin ==
    /\ \E i \in 1..Len(chan) : chan[i] = <<"send_fd", "stdin", STDIN_FILENO>>
    /\ \E i \in 1..Len(chan) : chan[i][1] = "write_int" /\ chan[i][2] = "pty"
    /\ pc # "recv_ptmx"
    /\ ~\E i \in 1..Len(chan) : chan[i][1] = "read_int" /\ chan[i][2] = "code"

\* the remote command reads a byte of the stdin it inherited
remote_reads_stdin ==
    /\ Alive
    /\ RemoteHoldsStdin
    /\ IOCount < MaxIO
    /\ stdinReads' = Append(stdinReads, <<"remote", inPump>>)
    /\ UNCHANGED <<pc, tty, ack, atty, ptmx, stdOpen, code, ret, masterOps, winchFd, winchLog>>
    /\ UNCHANGED parseVars
    /\ UNCHANGED <<chanVars, sigVars, termVars, pumpVars, outVars>>

(* ---- su_client_main: the result ---- *)

\* int code = read_int(fd)
read_int_code ==
    /\ pc = "read_exit"
    /\ \E c \in ExitCodes :
        /\ ChanOp("read_int", "code", c)
        /\ code' = c
    /\ pc' = "close"
    /\ UNCHANGED <<tty, fdState, fdCloses, ack, atty, ptmx, stdOpen, ret>>
    /\ UNCHANGED <<sigVars, termVars, pumpVars>>
    /\ UNCHANGED <<outVars, ioVars>>
    /\ UNCHANGED parseVars

\* close(fd)
close_fd ==
    /\ pc = "close"
    /\ ChanOp("close", "fd", 0)
    /\ fdState' = "closed"
    /\ fdCloses' = fdCloses + 1
    /\ pc' = "return"
    /\ UNCHANGED <<tty, ack, atty, ptmx, stdOpen, code, ret>>
    /\ UNCHANGED <<sigVars, termVars, pumpVars>>
    /\ UNCHANGED <<outVars, ioVars>>
    /\ UNCHANGED parseVars

\* the exit status returned as a success / failure flag
return_code_AsFlag ==
    /\ pc = "return"
    /\ ret' = (IF code = 0 THEN 0 ELSE 1)
    /\ pc' = "returned"
    /\ UNCHANGED <<tty, ack, atty, ptmx, stdOpen, code>>
    /\ UNCHANGED <<chanVars, sigVars, termVars, pumpVars>>
    /\ UNCHANGED <<outVars, ioVars>>
    /\ UNCHANGED parseVars

\* return code
return_code ==
    /\ pc = "return"
    /\ ret' = code
    /\ pc' = "returned"
    /\ UNCHANGED <<tty, ack, atty, ptmx, stdOpen, code>>
    /\ UNCHANGED <<chanVars, sigVars, termVars, pumpVars>>
    /\ UNCHANGED <<outVars, ioVars>>
    /\ UNCHANGED parseVars

(* ---- the terminating signals ---- *)

RECURSIVE HandlerLoop_StopsEarly(_)
\* the loop of sighandler ending one entry before the terminator
HandlerLoop_StopsEarly(i) ==
    IF quit_signals[i + 1] = 0 THEN <<>>
    ELSE <<quit_signals[i]>> \o HandlerLoop_StopsEarly(i + 1)

RECURSIVE HandlerLoop(_)
\* for (int i = 0; quit_signals[i]; ++i): the signals the loop of sighandler
\* visits, in order
HandlerLoop(i) ==
    IF quit_signals[i] = 0 THEN <<>>
    ELSE <<quit_signals[i]>> \o HandlerLoop(i + 1)

\* the calls sighandler makes, in order
HandlerOps ==
    <<  <<"restore_stdin", 0>>,
        <<"close", STDIN_FILENO>>, <<"close", STDOUT_FILENO>>, <<"close", STDERR_FILENO>> >>
    \o [i \in 1..Len(HandlerLoop(1)) |-> <<"sigaction_dfl", HandlerLoop(1)[i]>>]

\* sighandler leaving the terminal as it is
sighandler_NoRestore(sig) ==
    /\ Alive
    /\ disp[sig] = "handler"
    /\ UNCHANGED termVars
    /\ stdOpen' = [f \in StdFds |-> FALSE]
    /\ disp' = [s \in QuitSignalSet |->
                    IF InSeq(s, HandlerLoop(1)) THEN "dfl" ELSE disp[s]]
    /\ hlog' = hlog \o HandlerOps
    /\ handled' = Append(handled, sig)
    /\ UNCHANGED <<pc, tty, ack, atty, ptmx, code, ret, killedBy>>
    /\ UNCHANGED <<chanVars, pumpVars>>
    /\ UNCHANGED <<outVars, ioVars>>
    /\ UNCHANGED parseVars

\* sighandler raising the signal again once the defaults are back
sighandler_Reraise(sig) ==
    /\ Alive
    /\ disp[sig] = "handler"
    /\ restore_stdin
    /\ stdOpen' = [f \in StdFds |-> FALSE]
    /\ disp' = [s \in QuitSignalSet |->
                    IF InSeq(s, HandlerLoop(1)) THEN "dfl" ELSE disp[s]]
    /\ hlog' = hlog \o HandlerOps
    /\ handled' = Append(handled, sig)
    /\ pc' = "killed"
    /\ killedBy' = sig
    /\ UNCHANGED <<tty, ack, atty, ptmx, code, ret>>
    /\ UNCHANGED <<chanVars, pumpVars>>
    /\ UNCHANGED <<outVars, ioVars>>
    /\ UNCHANGED parseVars

\* sighandler leaving the standard streams open
sighandler_NoClose(sig) ==
    /\ Alive
    /\ disp[sig] = "handler"
    /\ restore_stdin
    /\ disp' = [s \in QuitSignalSet |->
                    IF InSeq(s, HandlerLoop(1)) THEN "dfl" ELSE disp[s]]
    /\ hlog' = hlog \o HandlerOps
    /\ handled' = Append(handled, sig)
    /\ UNCHANGED <<pc, tty, ack, atty, ptmx, code, ret, killedBy, stdOpen>>
    /\ UNCHANGED <<chanVars, pumpVars>>
    /\ UNCHANGED <<outVars, ioVars>>
    /\ UNCHANGED parseVars

\* sighandler(sig), run on delivery of a signal bound to it
sighandler(sig) ==
    /\ Alive
    /\ disp[sig] = "handler"
    /\ restore_stdin
    /\ stdOpen' = [f \in StdFds |-> FALSE]
    /\ disp' = [s \in QuitSignalSet |->
                    IF InSeq(s, HandlerLoop(1)) THEN "dfl" ELSE disp[s]]
    /\ hlog' = hlog \o HandlerOps
    /\ handled' = Append(handled, sig)
    /\ UNCHANGED <<pc, tty, ack, atty, ptmx, code, ret, killedBy>>
    /\ UNCHANGED <<chanVars, pumpVars>>
    /\ UNCHANGED <<outVars, ioVars>>
    /\ UNCHANGED parseVars

\* a terminating signal with its default disposition ends the process
signal_default(sig) ==
    /\ Alive
    /\ disp[sig] = "dfl"
    /\ pc' = "killed"
    /\ killedBy' = sig
    /\ UNCHANGED <<tty, ack, atty, ptmx, stdOpen, code, ret, disp, hlog, handled>>
    /\ UNCHANGED <<chanVars, termVars, pumpVars>>
    /\ UNCHANGED <<outVars, ioVars>>
    /\ UNCHANGED parseVars

(* ---- a failure of the channel ---- *)

\* the exit status of a communication error
COMM_ERROR_STATUS == 1

\* the channel operation the foreground thread is about to make
PendingOp ==
    CASE pc = "send_req" -> "request"
      [] pc = "send_shell" -> "shell"
      [] pc = "send_command" -> "command"
      [] pc = "read_ack" -> "ack"
      [] pc = "send_stdin" -> "stdin"
      [] pc = "send_stdout" -> "stdout"
      [] pc = "send_stderr" -> "stderr"
      [] pc = "send_flag" -> "pty"
      [] pc = "recv_ptmx" -> "ptmx"
      [] pc = "read_exit" -> "code"
      [] OTHER -> "none"

\* a failed read handed on as the value -1, the flow going on as after a read
channel_error_AsValue ==
    /\ PendingOp \in {"ack", "code"}
    /\ failedAt = "none"
    /\ failedAt' = PendingOp
    /\ IF PendingOp = "ack"
       THEN ack' = -1 /\ pc' = "deny" /\ UNCHANGED code
       ELSE code' = -1 /\ pc' = "close" /\ UNCHANGED ack
    /\ UNCHANGED <<tty, atty, ptmx, stdOpen, ret, errOut, connects>>
    /\ UNCHANGED <<chanVars, sigVars, termVars, pumpVars>>
    /\ UNCHANGED ioVars
    /\ UNCHANGED parseVars

\* the channel closes or errors under the pending operation: a communication
\* error, fatal, with a message on standard error and a status of its own
channel_error ==
    /\ PendingOp # "none"
    /\ failedAt' = PendingOp
    /\ errOut' = Append(errOut, "communication error")
    /\ ret' = COMM_ERROR_STATUS
    /\ pc' = "exited"
    /\ UNCHANGED <<tty, ack, atty, ptmx, stdOpen, code, connects>>
    /\ UNCHANGED <<chanVars, sigVars, termVars, pumpVars>>
    /\ UNCHANGED ioVars
    /\ UNCHANGED parseVars

Next ==
    \/ normalize_argv
    \/ getopt_loop
    \/ dash_login
    \/ user_or_uid
    \/ connect_daemon
    \/ xwrite_request
    \/ write_string_shell
    \/ write_string_command
    \/ read_int_ack
    \/ return_EACCES
    \/ isatty_streams
    \/ send_fd_stdin
    \/ send_fd_stdout
    \/ send_fd_stderr
    \/ write_int_flag
    \/ recv_fd_ptmx
    \/ if_atty_session
    \/ setup_sighandlers
    \/ watch_sigwinch_async
    \/ pump_stdin_async
    \/ pump_stdout_blocking
    \/ pump_stdout_eos
    \/ pump_stdout_unblocked
    \/ pump_stdin_exit
    \/ pump_stdin_copy
    \/ pump_stdout_copy
    \/ sigwinch
    \/ remote_reads_stdin
    \/ read_int_code
    \/ close_fd
    \/ return_code
    \/ channel_error
    \/ \E sig \in QuitSignalSet : sighandler(sig)
    \/ \E sig \in QuitSignalSet : signal_default(sig)

Spec == Init /\ [][Next]_vars

\* the command line up to the transmission of the request record
ParseNext ==
    \/ normalize_argv
    \/ getopt_loop
    \/ dash_login
    \/ user_or_uid
    \/ connect_daemon
    \/ xwrite_request

ParseSpec == ParseInit /\ [][ParseNext]_vars

\* the scheduling: a pump whose stream was closed under it gets to exit, the
\* foreground thread gets to run its next statement, the daemon answers a
\* pending read of the exit status
LiveSpec ==
    /\ Spec
    /\ WF_vars(pump_stdout_unblocked)
    /\ WF_vars(pump_stdin_exit /\ ~stdOpen[STDIN_FILENO])
    /\ WF_vars(read_int_code)
    /\ WF_vars(close_fd)
    /\ WF_vars(return_code)

(* ---- reading the channel log ---- *)

\* the calls made on the channel and what each carried, without the values
Shape(c) == [i \in 1..Len(c) |-> <<c[i][1], c[i][2]>>]

\* the positions of the log at which the call op carrying what was made
Positions(op, what) == {i \in 1..Len(chan) : chan[i][1] = op /\ chan[i][2] = what}

\* a descriptor-exchange operation: a transfer, the flag or the receive
IsFdExchange(e) == e[1] \in {"send_fd", "write_int", "recv_fd"}

AckRead == Positions("read_int", "ack") # {}
ExitRead == Positions("read_int", "code") # {}
Terminated == pc \in {"returned", "killed", "exited"}

(* ---- C1 ---- *)

\* C1: no descriptor transfer, flag or receive happens before the
\* acknowledgment was read and was zero; after a nonzero acknowledgment none
\* of them ever happens and su_client_main returns EACCES.
C1_NoFdBeforeAccept ==
    /\ \A i \in 1..Len(chan) :
          IsFdExchange(chan[i]) =>
              \E j \in 1..(i - 1) : chan[j] = <<"read_int", "ack", 0>>
    /\ (AckRead /\ ack # 0) =>
          /\ \A i \in 1..Len(chan) : ~IsFdExchange(chan[i])
          /\ pc \in {"deny", "returned", "killed"}
          /\ pc = "returned" => ret = EACCES

C1_Witness == ack = 2 /\ pc = "returned" /\ ret = EACCES /\ Len(chan) = 4

(* ---- C2 ---- *)

\* C2: the channel is closed exactly once on every exit path of an invocation
\* that opened it: here, whenever su_client_main has returned.
C2_ClosedOnceOnReturn ==
    (pc = "returned" /\ fdState # "none") => fdCloses = 1

(* ---- C3 ---- *)

HandshakeShape ==
    <<  <<"xwrite", "request">>, <<"write_string", "shell">>,
        <<"write_string", "command">>, <<"read_int", "ack">>,
        <<"send_fd", "stdin">>, <<"send_fd", "stdout">>, <<"send_fd", "stderr">>,
        <<"write_int", "pty">> >>

ResultShape == << <<"read_int", "code">>, <<"close", "fd">> >>

ShapeWithPty == HandshakeShape \o << <<"recv_fd", "ptmx">> >> \o ResultShape
ShapeWithoutPty == HandshakeShape \o ResultShape

\* C3: the operations on the channel occur in this order and no other is
\* interleaved: request record, shell, command, acknowledgment, the transfers
\* of stdin, stdout, stderr, the flag, zero or one receive, exit status, close;
\* an accepted invocation that returns has made all of them.
C3_ChannelOrder ==
    /\ \/ IsPrefix(Shape(chan), ShapeWithPty)
       \/ IsPrefix(Shape(chan), ShapeWithoutPty)
    /\ (pc = "returned" /\ ack = 0) =>
          Shape(chan) \in {ShapeWithPty, ShapeWithoutPty}

C3_Witness == pc = "returned" /\ ack = 0 /\ Shape(chan) = ShapeWithPty

(* ---- C4 ---- *)

StreamName(f) ==
    IF f = STDIN_FILENO THEN "stdin" ELSE IF f = STDOUT_FILENO THEN "stdout" ELSE "stderr"

FlagSent(v) == \E i \in Positions("write_int", "pty") : chan[i][3] = v

\* C4: for every combination of terminals, each stream is transferred as the
\* sentinel -1 iff it is a terminal and as its real descriptor otherwise; the
\* flag sent is 1 iff some stream is a terminal; a master is received iff the
\* flag sent was 1.
C4_MaskDecidesExchange ==
    /\ \A f \in StdFds : \A i \in Positions("send_fd", StreamName(f)) :
          /\ chan[i][3] = -1 <=> tty[f]
          /\ ~tty[f] => chan[i][3] = f
    /\ \A i \in Positions("write_int", "pty") :
          /\ chan[i][3] \in {0, 1}
          /\ chan[i][3] = 1 <=> \E f \in StdFds : tty[f]
    /\ Positions("recv_fd", "ptmx") # {} => FlagSent(1)
    /\ (FlagSent(1) /\ pc \notin {"recv_ptmx", "killed", "exited"}) =>
          Cardinality(Positions("recv_fd", "ptmx")) = 1
    /\ pc \in {"if_atty", "read_exit"} =>
          \A f \in StdFds : Cardinality(Positions("send_fd", StreamName(f))) = 1

C4_Witness ==
    /\ pc = "if_atty"
    /\ tty[STDOUT_FILENO] /\ ~tty[STDIN_FILENO] /\ ~tty[STDERR_FILENO]
    /\ ptmx

(* ---- C5 ---- *)

\* the read of the exit status has begun: the foreground thread is at it or past it
ExitReadBegun == pc = "read_exit" \/ ExitRead

\* C5 as stated: with a pseudo-terminal, the read of the exit status never
\* begins before the output pump has observed end-of-stream on the master.
C5_ExitReadOnlyAfterEOS == (ptmx /\ ExitReadBegun) => sawEOS

\* C5 amended: with a pseudo-terminal, the read of the exit status never
\* begins before the output pump has ended, and the pump ends without having
\* observed end-of-stream only after the handler of a terminating signal ran.
C5_ExitReadOnlyAfterPumpEnd ==
    (ptmx /\ ExitReadBegun) =>
        /\ outPump = "ended"
        /\ sawEOS \/ handled # <<>>

C5_Witness == ptmx /\ ExitRead /\ ~sawEOS /\ handled # <<>> /\ outPump = "ended"

(* ---- C6 ---- *)

\* C6 as stated: once the handler has run for a terminating signal the
\* process is terminated by that signal, it does not go on to return an exit
\* status of its own.
C6_HandledSignalIsFatal == handled # <<>> => pc # "returned"

\* C6 amended: the handler only cleans up and puts the default dispositions
\* back; the signal it ran for does not terminate the process, whose
\* foreground flow stays where it was and goes on, and only a later signal
\* of the set, met with its default disposition, terminates it.
C6_HandlerDoesNotTerminate ==
    [][ handled' # handled =>
            /\ pc' = pc
            /\ killedBy' = 0
            /\ \A s \in QuitSignalSet : disp'[s] = "dfl" ]_vars

C6_Witness == handled # <<>> /\ pc = "returned" /\ ret = code /\ killedBy = 0

(* ---- C7 ---- *)

SevenSignals == {SIGALRM, SIGABRT, SIGHUP, SIGPIPE, SIGQUIT, SIGTERM, SIGINT}

\* C7: whichever signal fired, the handler (1) restores the terminal, then
\* (2) closes stdin, stdout and stderr, then (3) puts the default disposition
\* back for every one of the seven signals; afterwards none is still bound to
\* the handler.
C7_HandlerOrder ==
    handled # <<>> =>
        /\ Len(hlog) = 11
        /\ hlog[1] = <<"restore_stdin", 0>>
        /\ hlog[2] = <<"close", 0>> /\ hlog[3] = <<"close", 1>> /\ hlog[4] = <<"close", 2>>
        /\ {hlog[i] : i \in 5..11} = {<<"sigaction_dfl", s>> : s \in SevenSignals}
        /\ \A s \in SevenSignals : disp[s] = "dfl"
        /\ \A f \in StdFds : ~stdOpen[f]

C7_Witness == handled = <<SIGPIPE>> /\ Len(hlog) = 11 /\ pc = "pump_wait"

(* ---- C8 ---- *)

\* C8: the terminal is never in raw mode before the master was received,
\* after the output pump ended or after the handler ran, and the process
\* never terminates with the terminal in raw mode; from the start of the
\* pumps until then a terminal on stdin is in raw mode.
C8_RawModeScope ==
    /\ raw => (ptmx /\ outPump # "ended" /\ handled = <<>> /\ ~Terminated)
    /\ (inPump # "none" /\ outPump # "ended" /\ handled = <<>> /\ tty[STDIN_FILENO]) => raw
    /\ IsPrefix(termLog, <<"raw", "restore">>)

C8_Witness == termLog = <<"raw", "restore">> /\ handled # <<>> /\ pc = "pump_wait"

(* ---- C9 ---- *)

PumpsStarted == watcher # "none" \/ inPump # "none" \/ outPump # "none"

\* C9: the resize watcher and the pumps start only after the whole handshake
\* (request, acknowledgment, three transfers, flag 1, one master received),
\* and never when no stream is a terminal.
C9_HandshakeBeforePumps ==
    /\ PumpsStarted =>
          /\ IsPrefix(HandshakeShape \o << <<"recv_fd", "ptmx">> >>, Shape(chan))
          /\ chan[4][3] = 0
          /\ chan[8][3] = 1
          /\ Cardinality(Positions("recv_fd", "ptmx")) = 1
          /\ ptmx
          /\ \E f \in StdFds : tty[f]
    /\ (pc = "read_exit" /\ \E f \in StdFds : tty[f]) => outPump # "none"

C9_Witness == watcher = "running" /\ inPump = "running" /\ outPump = "running"

(* ---- C10 ---- *)

\* C10: on the normal path the value su_client_main returns is the integer
\* read from the channel as the exit status, zero or not, read exactly once.
C10_ReturnsExitStatus ==
    (pc = "returned" /\ ack = 0) =>
        /\ Cardinality(Positions("read_int", "code")) = 1
        /\ \A i \in Positions("read_int", "code") : chan[i][3] = ret

C10_Witness == pc = "returned" /\ ack = 0 /\ ret = MaxCode /\ code = MaxCode

(* ---- C11 ---- *)

\* what the invoker sees of the client: how it ended, its status, its messages
CommErrorReported == InSeq("communication error", errOut)

Spelled(e) == origArgv[e.at]

\* the request before the k-th option met
PrevReq(k) == IF k = 1 THEN DefaultReq ELSE optLog[k - 1].req

\* the option loop and the positional words are done with
ParseDone == pc \notin {"normalize", "getopt", "dash", "user"}

UsageExit == pc = "exited" /\ ret = USAGE_STATUS /\ InSeq("usage", errOut)

(* ---- C13 ---- *)

\* C13: once -c is matched, the command is the option's argument and every
\* word after it, joined by spaces, each spelled as it was given; no word
\* after -c is read as an option or as the user, and none ends the run.
C13_CommandVerbatim ==
    \A k \in 1..Len(optLog) : optLog[k].c = "c" =>
        /\ su_req.command =
              JoinOnto(<<>>, SubSeq(origArgv, optLog[k].at + 1, Len(origArgv)))
        /\ k = Len(optLog)
        /\ pc # "exited"
        /\ dashAt < optLog[k].at /\ userAt < optLog[k].at
        /\ su_req.keepenv = optLog[k].req.keepenv
        /\ su_req.mount_master = optLog[k].req.mount_master
        /\ su_req.shell = optLog[k].req.shell

(* ---- C14 ---- *)

\* -mm and -M alike set mount-master and nothing else, and take no word
MountMasterAlias(k) ==
    Spelled(optLog[k]) \in {<<"-", "m", "m">>, <<"-", "M">>} =>
        /\ optLog[k].c = "M"
        /\ optLog[k].argAt = 0
        /\ optLog[k].req = [PrevReq(k) EXCEPT !.mount_master = TRUE]

\* C14: -mm does what -M does, and -cn is accepted without error, takes no
\* other word with it and leaves the request as it was.
C14_AliasesAsCanonical ==
    \A k \in 1..Len(optLog) :
        /\ MountMasterAlias(k)
        /\ Spelled(optLog[k]) = <<"-", "c", "n">> =>
              /\ optLog[k].c = "z"
              /\ optLog[k].argAt = 0
              /\ optLog[k].req = PrevReq(k)
              /\ ~UsageExit

\* C14, amended: -mm does what -M does; -cn is rewritten to an option that
\* requires an argument: it takes the next word with it, which is then read
\* neither as an option nor as a positional word, and leaves the request as
\* it was; with no next word it is a usage error, exit status 2.
C14_CnTakesNextWord ==
    \A k \in 1..Len(optLog) :
        /\ MountMasterAlias(k)
        /\ Spelled(optLog[k]) = <<"-", "c", "n">> =>
              \/ /\ optLog[k].c = "z"
                 /\ optLog[k].argAt = optLog[k].at + 1
                 /\ optLog[k].req = PrevReq(k)
                 /\ \A j \in 1..Len(optLog) : optLog[j].at # optLog[k].argAt
                 /\ dashAt # optLog[k].argAt /\ userAt # optLog[k].argAt
              \/ /\ optLog[k].c = "?"
                 /\ optLog[k].at = Len(origArgv)
                 /\ k = Len(optLog)
                 /\ UsageExit

C14_Witness ==
    /\ origArgv = << <<"-", "c", "n">>, <<"-", "l">>, <<"-", "m", "m">> >>
    /\ pc = "send_shell"
    /\ ~su_req.login /\ su_req.mount_master

(* ---- C15 ---- *)

\* C15: an unknown option met by the loop ends the run with status 2, and
\* --help, --version or -V with status 0, before any connection to the
\* daemon: none is opened and nothing is written.
C15_ExitBeforeDaemon ==
    /\ \A k \in 1..Len(optLog) :
          /\ (Spelled(optLog[k]) = <<"-", "x">> \/ optLog[k].c = "?") =>
                (k = Len(optLog) /\ UsageExit)
          /\ Spelled(optLog[k]) \in {<<"-", "-", "h", "e", "l", "p">>,
                                     <<"-", "-", "v", "e", "r", "s", "i", "o", "n">>,
                                     <<"-", "V">>} =>
                (k = Len(optLog) /\ pc = "exited" /\ ret = EXIT_SUCCESS)
    /\ (pc = "exited" /\ failedAt = "none") =>
          (connects = 0 /\ fdState = "none" /\ chan = <<>>)

C15_Witness ==
    /\ origArgv = << <<"-", "l">>, <<"r", "o", "o", "t">>, <<"-", "x">> >>
    /\ UsageExit /\ connects = 0 /\ chan = <<>>

(* ---- C16 ---- *)

\* some option met set the login flag
LoginByOption == \E k \in 1..Len(optLog) : optLog[k].c = "l"

\* the first positional word is a lone "-"
LoneDash == firstPos <= Len(argv) /\ argv[firstPos] = <<"-">>

\* where the user word stands, if there is one
UserPos == IF LoneDash THEN firstPos + 1 ELSE firstPos

\* C16: after the options, a lone "-" as first positional word sets login
\* and is consumed; the next positional word, if any, gives the uid: that of
\* the user of this name when the lookup succeeds, else the word read as an
\* integer; with no such word the uid keeps its default; the uid so decided
\* is the one transmitted.
C16_PositionalWords ==
    (ParseDone /\ pc # "exited") =>
        /\ su_req.login = (LoneDash \/ LoginByOption)
        /\ (dashAt # 0) = LoneDash
        /\ IF UserPos <= Len(argv)
           THEN /\ pw \in getpwnam(argv[UserPos])
                /\ pw.found => su_req.uid = pw.pw_uid
                /\ ~pw.found => su_req.uid = parse_int(argv[UserPos])
                /\ (~pw.found /\ argv[UserPos] = <<"1", "0">>) => su_req.uid = 10
                /\ userAt = orig[UserPos]
                /\ optind = UserPos + 1
           ELSE /\ su_req.uid = DefaultUid
                /\ userAt = 0
                /\ optind = UserPos
        /\ \A i \in 1..Len(chan) :
              chan[i][1] = "xwrite" => chan[i][3] = su_req.uid

C16_Witness ==
    /\ origArgv = << <<"-">>, <<"1", "0">> >>
    /\ pw.found /\ su_req.uid = 7 /\ su_req.login
    /\ chan = << <<"xwrite", "request", 7>> >>

(* ---- C17 ---- *)

\* C17: in a pseudo-terminal session only the input pump reads local stdin
\* and writes the master and only the output pump reads the master; no other
\* party reads local stdin while the input pump runs, whatever the mask.
C17_OneTaskPerDirection ==
    /\ \A i \in 1..Len(masterOps) :
          masterOps[i] \in {<<"input_pump", "write">>, <<"output_pump", "read">>}
    /\ \A i \in 1..Len(stdinReads) :
          stdinReads[i][2] = "running" => stdinReads[i][1] = "input_pump"

(* ---- C18 ---- *)

\* C18: once the handler ran while the output pump was blocked, its close of
\* the standard streams makes the pumps exit, and the foreground thread then
\* reads the exit status and closes the channel (unless the process is
\* ended first by a further signal or a failure of the channel).
C18_HandlerUnblocksPumps ==
    /\ (handled # <<>> /\ pc = "pump_wait" /\ outPump = "running")
          ~> ((outPump = "ended" /\ ExitRead /\ fdState = "closed")
                \/ pc \in {"killed", "exited"})
    /\ (handled # <<>> /\ inPump = "running")
          ~> (inPump = "ended" \/ Terminated)

C18_Witness ==
    /\ handled # <<>> /\ outPump = "ended" /\ inPump = "ended" /\ ~sawEOS
    /\ ExitRead /\ fdState = "closed"

(* ---- C19 ---- *)

\* C19: the handler is installed only with a nonzero mask, after a zero
\* acknowledgment and the receipt of the master; before that, and always
\* with an all-false mask, the seven signals keep their default disposition
\* and a signal runs no cleanup code.
C19_HandlerInstalledLate ==
    /\ (\E s \in SevenSignals : disp[s] = "handler") =>
          /\ atty # 0 /\ ack = 0 /\ ptmx
          /\ \A s \in SevenSignals : disp[s] = "handler"
          /\ IsPrefix(HandshakeShape \o << <<"recv_fd", "ptmx">> >>, Shape(chan))
    /\ hlog # <<>> => (atty # 0 /\ ack = 0 /\ ptmx)
    /\ (pc = "killed" /\ ~ptmx) => (hlog = <<>> /\ handled = <<>>)
    /\ (\A f \in StdFds : ~tty[f]) =>
          (hlog = <<>> /\ \A s \in SevenSignals : disp[s] = "dfl")

C19_Witness == pc = "killed" /\ killedBy = SIGINT /\ AckRead /\ ack = 0 /\ Len(chan) = 6

(* ---- C20 ---- *)

\* the terminal session was entered and the pumps were started
SessionStarted == pc = "pump_wait" \/ outPump = "ended"

\* C20: the input pump and the resize watcher are started whenever some
\* stream is a terminal, whether or not stdin is one: with stdin not a
\* terminal its real descriptor is transferred and the input pump still runs
\* on local stdin, and the watcher queries the dimensions on stdout even
\* when stdout is not a terminal.
C20_PumpsWhateverTheStdinBit ==
    /\ SessionStarted =>
          /\ inPump # "none" /\ watcher = "running" /\ winchFd = STDOUT_FILENO
          /\ ~tty[STDIN_FILENO] => chan[5] = <<"send_fd", "stdin", STDIN_FILENO>>
    /\ ((\E f \in StdFds : tty[f]) /\ pc = "read_exit") => SessionStarted
    /\ \A i \in 1..Len(winchLog) : winchLog[i] = STDOUT_FILENO
    /\ \A i \in 1..Len(stdinReads) :
          stdinReads[i][1] = "input_pump" => inPump # "none"

C20_Witness ==
    /\ ~tty[STDIN_FILENO] /\ ~tty[STDOUT_FILENO] /\ tty[STDERR_FILENO]
    /\ InSeq(<<"input_pump", "running">>, stdinReads)
    /\ chan[5] = <<"send_fd", "stdin", STDIN_FILENO>>
    /\ watcher = "running" /\ winchFd = STDOUT_FILENO

====
